---- MODULE Spec2Model ----
(***************************************************************************)
(* Model of the media state-synchronisation core of media-playable:        *)
(*   - the store (MediaMachine.ts, an @xstate/fsm machine with one state   *)
(*     and one UPDATE event whose assign action shallow-merges a partial), *)
(*   - the selector hook useMediaContext (MediaContext),                   *)
(*   - the binder MediaProvider (event handlers, control methods, the      *)
(*     hls.js adapter lifecycle, the LOADING debounce timer and the        *)
(*     play/pause reconciliation).                                         *)
(*                                                                         *)
(* Units: media times are integers counted in 1/SecondUnits of a second,   *)
(* volumes in 1/VolumeUnits, timer delays in milliseconds, rotation in     *)
(* degrees.                                                                *)
(***************************************************************************)
EXTENDS Integers, Sequences, FiniteSets, TLC

VARIABLES
    context,          \* service.state.context: the snapshot
    changed,          \* service.state.changed of the current state
    sent,             \* history: the partials of the UPDATE events sent so far
    mounted,          \* the consumers (useMediaContext callers) rendered so far
    partialState,     \* per consumer: the useState value it renders with
    stateIsContext,   \* per consumer: partialState is the very object state.context
    listener,         \* per consumer: its subscribed callback (captured partialState)
    effectPending,    \* per consumer: rendered, useEffect not yet (re)run
    mediaBound,       \* _mediaRef.current is an element
    media,            \* the native media element's properties
    pausedRef,        \* _pausedRef.current
    playPromise,      \* _playPromise.current (0 = undefined, else a promise id)
    promises,         \* promise id -> "unused" | "pending" | "resolved" | "rejected"
    playOrder,        \* the pending promises, oldest first
    waiters,          \* promise id -> number of setPaused(true) calls awaiting it
    microtasks,       \* continuations of awaits on already settled promises
    lastRequest,      \* history: "pause" or "play", the most recent setPaused request
    playReturnsPromise, \* media.play() returns a promise (undefined in IE)
    hlsSupported,     \* Hls.isSupported() of this environment
    mediaSource,      \* the mediaSource prop of the last render
    cleanupRegistered,\* the mediaSource effect returned releaseHlsResource
    hlsInstances,     \* every Hls instance created so far
    hlsRef,           \* _hlsRef.current (0 = undefined, else index in hlsInstances)
    sessionEnded,     \* the provider has unmounted
    timeoutLoadingId, \* _timeoutLoadingId.current (0 = undefined, else a timer id)
    timers,           \* pending timeouts
    seekAge,          \* history: ms since the last seeking event at an unplayable position
    progressSinceSeek,\* history: a playable progress event came after that seeking event
    last              \* history: the last step: event/method, argument, native calls made

storeVars == <<context, changed>>
consumerVars == <<mounted, partialState, stateIsContext, listener, effectPending>>
mediaVars == <<mediaBound, media>>
playVars == <<pausedRef, playPromise, promises, playOrder, waiters, microtasks, lastRequest,
             playReturnsPromise>>
hlsVars == <<hlsSupported, mediaSource, cleanupRegistered, hlsInstances, hlsRef,
            sessionEnded>>
timerVars == <<timeoutLoadingId, timers, seekAge, progressSinceSeek>>
vars == <<storeVars, sent, consumerVars, mediaVars, playVars, hlsVars, timerVars, last>>

----------------------------------------------------------------------------
(* Bounds and units *)

SecondUnits == 10000
VolumeUnits == 100
MaxUpdates == 3
MaxPlays == 2
MaxWaiters == 2
MaxInstances == 2
MaxTimers == 2
TickStep == 500

(* Program constants *)

DEFAULT_AUTO_BITRATE_INDEX == -1
LoadingDelay == 1000
FullTurn == 360

LOADING == "LOADING"
CAN_PLAY == "CAN_PLAY"
RECOVERING == "RECOVERING"
ERROR == "ERROR"
MediaStatus == {LOADING, CAN_PLAY, RECOVERING, ERROR}

NETWORK_ERROR == "networkError"
MEDIA_ERROR == "mediaError"
OTHER_ERROR == "otherError"
ErrorTypes == {NETWORK_ERROR, MEDIA_ERROR, OTHER_ERROR}

----------------------------------------------------------------------------
(* The store: MediaMachine.ts *)

\* A TimeRanges object (the ranges it holds), and the context's initial null.
TimeRanges(ranges) == [isNull |-> FALSE, ranges |-> ranges]
NullTimeRanges == [isNull |-> TRUE, ranges |-> <<>>]

\* The machine's initial context.
InitialContext ==
    [ currentTime |-> 0,
      duration |-> 0,
      ended |-> FALSE,
      error |-> "",
      muted |-> FALSE,
      paused |-> TRUE,
      playbackRate |-> 1,
      rotate |-> 0,
      seeking |-> FALSE,
      status |-> LOADING,
      volume |-> VolumeUnits,
      buffered |-> NullTimeRanges,
      autoBitrateEnabled |-> TRUE,
      bitrateInfos |-> <<>>,
      currentBirateIndex |-> DEFAULT_AUTO_BITRATE_INDEX ]

Fields == DOMAIN InitialContext

\* A mutation of the assign action: the spread order swapped, so that the
\* context's fields win over the event's.
updateMediaContextWins(ctx, updateValues) ==
    [f \in DOMAIN ctx |-> ctx[f]]

\* The assign action updateMedia: { ...context, ...event.updateValues }.
updateMedia(ctx, updateValues) ==
    [f \in DOMAIN ctx |->
        IF f \in DOMAIN updateValues THEN updateValues[f] ELSE ctx[f]]

\* state.changed after the UPDATE transition: the transition has no target
\* and one action, an assign, so @xstate/fsm reports changed = true whatever
\* the values assigned.
transitionChanged(ctx, updateValues) ==
    TRUE

----------------------------------------------------------------------------
(* The selector hook: useMediaContext *)

\* Two consumers: one with the default selector (identity), one with
\* ConnectedMediaComp's selector.
Consumers == {"all", "time"}

IsIdentity(c) == c = "all"

selector(c, ctx) ==
    IF IsIdentity(c) THEN ctx ELSE [currentTime |-> ctx.currentTime]

\* A mutation of isEqual: every two values are reported equal.
isEqualAlways(a, b) == TRUE

\* lodash isEqual on the values selected here (records of primitives,
\* sequences and records): structural equality.
isEqual(a, b) == a = b

\* The store and its consumers as one value, so that a handler which sends
\* several UPDATE events threads it through them in order. called and
\* rerendered collect, for the step, the listeners called with changed = true
\* or not, and the consumers whose state was replaced.
Store ==
    [ context |-> context,
      changed |-> changed,
      partialState |-> partialState,
      stateIsContext |-> stateIsContext,
      effectPending |-> effectPending,
      called |-> {},
      rerendered |-> {} ]

\* A mutation of the subscription callback: no deep-equality gate.
listenerCallNoGate(S, c, captured) ==
    IF S.changed # TRUE
    THEN [S EXCEPT !.called = @ \cup {<<c, S.changed>>}]
    ELSE [S EXCEPT !.called = @ \cup {<<c, S.changed>>},
                    !.partialState[c] = selector(c, S.context),
                    !.stateIsContext[c] = IsIdentity(c),
                    !.effectPending[c] = TRUE,
                    !.rerendered = @ \cup {c}]

\* The callback passed to subscribe, called with the service's state. The
\* closure holds the partialState of the render whose effect subscribed it.
\* setPartialState re-renders unless the value is the object already held
\* (Object.is), and a render with a new partialState re-runs the effect.
listenerCall(S, c, captured) ==
    LET S1 == [S EXCEPT !.called = @ \cup {<<c, S.changed>>}]
        selected == selector(c, S.context)
        replace == [S1 EXCEPT !.partialState[c] = selected,
                              !.stateIsContext[c] = IsIdentity(c),
                              !.effectPending[c] = TRUE,
                              !.rerendered = @ \cup {c}]
    IN  IF S.changed # TRUE THEN S1
        ELSE IF IsIdentity(c)
             THEN IF S.stateIsContext[c] THEN S1 ELSE replace
             ELSE IF ~isEqual(selected, captured) THEN replace ELSE S1

RECURSIVE notify(_, _)
notify(S, cs) ==
    IF cs = {} THEN S
    ELSE LET c == CHOOSE x \in cs : TRUE
         IN  notify(listenerCall(S, c, listener[c].captured), cs \ {c})

\* service.send({type: "UPDATE", updateValues}): the transition, then every
\* listener is called with the new state.
send(S, updateValues) ==
    LET S1 == [S EXCEPT !.context = updateMedia(S.context, updateValues),
                        !.changed = transitionChanged(S.context, updateValues),
                        !.stateIsContext = [c \in Consumers |-> FALSE]]
    IN  notify(S1, {c \in Consumers : listener[c].on})

updateMediaService(S, updateValues) == send(S, updateValues)

Commit(S) ==
    /\ context' = S.context
    /\ changed' = S.changed
    /\ partialState' = S.partialState
    /\ stateIsContext' = S.stateIsContext
    /\ effectPending' = S.effectPending

\* The record of a step: the handler or method that ran, its argument, the
\* native and adapter calls it made, and what the store did.
Step(op, arg, calls, S) ==
    [op |-> op, arg |-> arg, calls |-> calls,
     called |-> S.called, rerendered |-> S.rerendered,
     sameValues |-> (S.context = context)]

----------------------------------------------------------------------------
(* The state after construction *)

\* The values of the element's duration: a number of SecondUnits, Infinity
\* (a stream without a known end) or NaN (no media data yet).
Finite(v) == [kind |-> "finite", value |-> v]
InfinityValue == [kind |-> "Infinity", value |-> 0]
NaNValue == [kind |-> "NaN", value |-> 0]

\* A media element as the browser creates it.
InitialMedia ==
    [ currentTime |-> 0,
      duration |-> NaNValue,
      playbackRate |-> 1,
      buffered |-> <<>>,
      volume |-> VolumeUnits,
      muted |-> FALSE,
      ended |-> FALSE ]

PromiseIds == 1..MaxPlays

Init ==
    /\ context = InitialContext
    /\ changed = FALSE
    /\ sent = <<>>
    /\ mounted = {}
    /\ partialState = [c \in Consumers |-> selector(c, InitialContext)]
    /\ stateIsContext = [c \in Consumers |-> FALSE]
    /\ listener = [c \in Consumers |->
                      [on |-> FALSE, captured |-> selector(c, InitialContext)]]
    /\ effectPending = [c \in Consumers |-> FALSE]
    /\ mediaBound = FALSE
    /\ media = InitialMedia
    /\ pausedRef = TRUE
    /\ playPromise = 0
    /\ promises = [p \in PromiseIds |-> "unused"]
    /\ playOrder = <<>>
    /\ waiters = [p \in PromiseIds |-> 0]
    /\ microtasks = 0
    /\ lastRequest = "none"
    /\ playReturnsPromise \in BOOLEAN
    /\ hlsSupported \in BOOLEAN
    /\ mediaSource = "none"
    /\ cleanupRegistered = FALSE
    /\ hlsInstances = <<>>
    /\ hlsRef = 0
    /\ sessionEnded = FALSE
    /\ timeoutLoadingId = 0
    /\ timers = {}
    /\ seekAge = -1
    /\ progressSinceSeek = FALSE
    /\ last = [op |-> "init", arg |-> 0, calls |-> <<>>, called |-> {},
               rerendered |-> {}, sameValues |-> TRUE]

----------------------------------------------------------------------------
(* The binder: MediaProvider. Readiness detection and the debounce timer *)

\* Math.floor of a time, in whole seconds.
Floor(t) == t \div SecondUnits

\* A mutation of the readiness check: exclusive bounds.
checkMediaHasDataToPlayExclusive(m) ==
    \E i \in 1..Len(m.buffered) :
        LET start == m.buffered[i][1]
            end == m.buffered[i][2]
            from == IF Floor(start) = 0 THEN Floor(start) ELSE start
        IN  m.currentTime > from /\ m.currentTime < end

\* checkMediaHasDataToPlay: the start of a range is replaced by its floor
\* when that floor is 0; the position is playable when some range holds it,
\* bounds included.
checkMediaHasDataToPlay(m) ==
    \E i \in 1..Len(m.buffered) :
        LET start == m.buffered[i][1]
            end == m.buffered[i][2]
            from == IF Floor(start) = 0 THEN Floor(start) ELSE start
        IN  m.currentTime >= from /\ m.currentTime <= end

\* clearTimeout(id): the timeout, if still pending, is removed.
clearTimeout(ts, id) == {t \in ts : t.id # id}

\* The id setTimeout returns: one that designates no pending timeout and is
\* not the id held in _timeoutLoadingId (browsers never reuse an id; an id
\* that is neither pending nor held is indistinguishable from a fresh one).
NewTimerId(ts, held) ==
    CHOOSE i \in 1..(MaxTimers + 2) :
        /\ i # held
        /\ \A t \in ts : t.id # i
        /\ \A j \in 1..(i - 1) : j = held \/ \E t \in ts : t.id = j

\* The binder's timer state as one value: T.id is _timeoutLoadingId.current,
\* T.timers the pending timeouts.
TimerState == [id |-> timeoutLoadingId, timers |-> timers]

\* A mutation of setLoadingStatus: the previous timeout is not cleared.
setLoadingStatusNoClear(T, origin) ==
    LET id == NewTimerId(T.timers, T.id)
    IN  [id |-> id,
         timers |-> T.timers \cup
             {[id |-> id, remaining |-> LoadingDelay, origin |-> origin]}]

\* setLoadingStatus: clear the held timeout, schedule the LOADING update
\* LoadingDelay ms from now. origin (history) names the event that asked.
setLoadingStatus(T, origin) ==
    LET cleared == IF T.id # 0 THEN clearTimeout(T.timers, T.id) ELSE T.timers
        id == NewTimerId(cleared, T.id)
    IN  [id |-> id,
         timers |-> cleared \cup
             {[id |-> id, remaining |-> LoadingDelay, origin |-> origin]}]

\* A mutation of setCanPlayStatus: the pending timeout is left to fire.
setCanPlayStatusTimersNoClear(T) == T

\* setCanPlayStatus, the timer part: clear the held timeout.
setCanPlayStatusTimers(T) ==
    [T EXCEPT !.timers = IF T.id # 0 THEN clearTimeout(T.timers, T.id) ELSE T.timers]

\* setCanPlayStatus, the store part.
setCanPlayStatus(S) == updateMediaService(S, [status |-> CAN_PLAY])

CommitTimers(T) ==
    /\ timeoutLoadingId' = T.id
    /\ timers' = T.timers

\* The positions and buffered extents the element may report.
MediaTimes == {0, 12 * SecondUnits}
BufferedChoices ==
    { <<>>,
      << <<56, 10 * SecondUnits>>, <<15 * SecondUnits, 20 * SecondUnits>> >> }

\* React attaches the media element to _mediaRef.
BindMedia ==
    /\ ~mediaBound /\ ~sessionEnded
    /\ mediaBound' = TRUE
    /\ last' = [op |-> "bind", arg |-> 0, calls |-> <<>>, called |-> {},
                rerendered |-> {}, sameValues |-> TRUE]
    /\ UNCHANGED <<storeVars, sent, consumerVars, media, playVars, hlsVars, timerVars>>

\* Native events are dispatched as tasks: between a task and the next, the
\* microtask queue is drained.
EventLoopIdle == microtasks = 0

\* seeking event: the element's position is the seek target.
OnSeeking(target) ==
    /\ mediaBound /\ EventLoopIdle
    /\ Cardinality(timers) < MaxTimers
    /\ LET m == [media EXCEPT !.currentTime = target, !.ended = FALSE]
           S == updateMediaService(Store,
                    [seeking |-> TRUE, currentTime |-> m.currentTime, ended |-> m.ended])
           playable == checkMediaHasDataToPlay(m)
           T == IF ~playable THEN setLoadingStatus(TimerState, "seeking") ELSE TimerState
       IN  /\ media' = m
           /\ Commit(S)
           /\ CommitTimers(T)
           /\ seekAge' = IF ~playable THEN 0 ELSE seekAge
           /\ progressSinceSeek' = IF ~playable THEN FALSE ELSE progressSinceSeek
           /\ last' = Step("seeking", playable, <<>>, S)
    /\ UNCHANGED <<sent, mounted, listener, mediaBound, playVars, hlsVars>>

\* progress event: the element's buffered extents have changed.
OnProgress(buffered) ==
    /\ mediaBound /\ EventLoopIdle
    /\ LET m == [media EXCEPT !.buffered = buffered]
           playable == checkMediaHasDataToPlay(m)
           S1 == IF playable THEN setCanPlayStatus(Store) ELSE Store
           T == IF playable THEN setCanPlayStatusTimers(TimerState) ELSE TimerState
           S == updateMediaService(S1, [buffered |-> TimeRanges(m.buffered)])
       IN  /\ media' = m
           /\ Commit(S)
           /\ CommitTimers(T)
           /\ progressSinceSeek' = (progressSinceSeek \/ playable)
           /\ last' = Step("progress", playable, <<>>, S)
    /\ UNCHANGED <<sent, mounted, listener, mediaBound, playVars, hlsVars, seekAge>>

\* waiting event.
OnWaiting ==
    /\ mediaBound /\ EventLoopIdle
    /\ Cardinality(timers) < MaxTimers
    /\ LET playable == checkMediaHasDataToPlay(media)
           S == IF playable THEN setCanPlayStatus(Store) ELSE Store
           T == IF playable THEN setCanPlayStatusTimers(TimerState)
                ELSE setLoadingStatus(TimerState, "waiting")
       IN  /\ Commit(S)
           /\ CommitTimers(T)
           /\ last' = Step("waiting", playable, <<>>, S)
    /\ UNCHANGED <<sent, mounted, listener, mediaVars, playVars, hlsVars,
                   seekAge, progressSinceSeek>>

\* canplay event.
OnCanPlay ==
    /\ mediaBound /\ EventLoopIdle
    /\ LET S == setCanPlayStatus(Store)
           T == setCanPlayStatusTimers(TimerState)
       IN  /\ Commit(S)
           /\ CommitTimers(T)
           /\ last' = Step("canplay", 0, <<>>, S)
    /\ UNCHANGED <<sent, mounted, listener, mediaVars, playVars, hlsVars,
                   seekAge, progressSinceSeek>>

\* error event of the element.
OnError ==
    /\ mediaBound /\ EventLoopIdle
    /\ LET S == updateMediaService(Store, [status |-> ERROR])
       IN  /\ Commit(S)
           /\ last' = Step("error", 0, <<>>, S)
    /\ UNCHANGED <<sent, mounted, listener, mediaVars, playVars, hlsVars, timerVars>>

\* The timeout scheduled by setLoadingStatus fires, once its delay is over.
FireLoadingTimer(t) ==
    /\ EventLoopIdle
    /\ t \in timers /\ t.remaining = 0
    /\ timers' = timers \ {t}
    /\ LET S == updateMediaService(Store, [status |-> LOADING])
       IN  /\ Commit(S)
           /\ last' = Step("timeout", t.origin, <<>>, S)
    /\ UNCHANGED <<sent, mounted, listener, mediaVars, playVars, hlsVars,
                   timeoutLoadingId, seekAge, progressSinceSeek>>

Min(a, b) == IF a <= b THEN a ELSE b
Max(a, b) == IF a >= b THEN a ELSE b

\* TickStep ms pass. seekAge is kept up to LoadingDelay only.
Tick ==
    /\ EventLoopIdle
    /\ \/ \E t \in timers : t.remaining > 0
       \/ seekAge >= 0 /\ seekAge < LoadingDelay
    /\ timers' = {[t EXCEPT !.remaining = Max(0, @ - TickStep)] : t \in timers}
    /\ seekAge' = IF seekAge < 0 THEN seekAge ELSE Min(LoadingDelay, seekAge + TickStep)
    /\ last' = [op |-> "tick", arg |-> 0, calls |-> <<>>, called |-> {},
                rerendered |-> {}, sameValues |-> TRUE]
    /\ UNCHANGED <<storeVars, sent, consumerVars, mediaVars, playVars, hlsVars,
                   timeoutLoadingId, progressSinceSeek>>

----------------------------------------------------------------------------
(* The binder: the streaming adapter (hls.js) *)

\* The binder's adapter state as one value: H.ref is _hlsRef.current,
\* H.instances the instances created so far, H.calls the adapter calls made
\* in this step.
HlsState == [ref |-> hlsRef, instances |-> hlsInstances, calls |-> <<>>]

\* hls.destroy(): the instance stops, detaches the media and drops its
\* listeners; without media its currentLevel reads -1. An instance's failed
\* field (history) tells that the ERROR handler destroyed it.
destroy(H, i) ==
    [H EXCEPT !.instances[i].destroyed = TRUE,
              !.instances[i].currentLevel = -1,
              !.calls = Append(@, <<"destroy", i>>)]

\* A mutation of releaseHlsResource: nothing is destroyed.
releaseHlsResourceNothing(H) == H

\* releaseHlsResource: destroy the instance _hlsRef holds, if any.
releaseHlsResource(H) ==
    IF H.ref # 0 THEN destroy(H, H.ref) ELSE H

\* new Hls(), stored in _hlsRef, then attachMedia.
newHls(H) ==
    LET i == Len(H.instances) + 1
    IN  [ref |-> i,
         instances |-> Append(H.instances,
             [destroyed |-> FALSE, currentLevel |-> -1, nextLevel |-> -1,
              failed |-> FALSE]),
         calls |-> H.calls \o << <<"new", i>>, <<"attachMedia", i>> >>]

CommitHls(H) ==
    /\ hlsRef' = H.ref
    /\ hlsInstances' = H.instances

Sources == {"none", "a.m3u8"}

\* MediaProvider renders with mediaSource = src. updateMediaService is a new
\* function at every render, so the effect's dependencies differ at every
\* render: the previous run's cleanup (if it returned one) runs, then the
\* effect body. _getMedia throws without an element.
RenderProvider(src) ==
    /\ EventLoopIdle /\ ~sessionEnded
    /\ src # "none" => mediaBound
    /\ src # "none" /\ hlsSupported => Len(hlsInstances) < MaxInstances
    /\ LET H0 == IF cleanupRegistered THEN releaseHlsResource(HlsState) ELSE HlsState
           H1 == IF src = "none" THEN H0 ELSE releaseHlsResource(H0)
           H == IF src # "none" /\ hlsSupported THEN newHls(H1) ELSE H1
       IN  /\ CommitHls(H)
           /\ last' = [op |-> "render", arg |-> src, calls |-> H.calls, called |-> {},
                       rerendered |-> {}, sameValues |-> TRUE]
    /\ mediaSource' = src
    /\ cleanupRegistered' = (src # "none")
    /\ UNCHANGED <<storeVars, sent, consumerVars, mediaVars, playVars, hlsSupported, sessionEnded,
                   timerVars>>

Live(i) == i \in 1..Len(hlsInstances) /\ ~hlsInstances[i].destroyed

\* The levels of the manifest; a level of an audio stream has no size.
ManifestLevels ==
    << [bitrate |-> 800, sized |-> TRUE, height |-> 360, width |-> 640],
       [bitrate |-> 128, sized |-> FALSE, height |-> 0, width |-> 0] >>

LevelIndexes == {0, 1}

\* MANIFEST_PARSED of instance i.
HlsManifestParsed(i) ==
    /\ EventLoopIdle /\ Live(i)
    /\ LET bitrateInfos ==
               [k \in 1..Len(ManifestLevels) |->
                   [bitrate |-> ManifestLevels[k].bitrate,
                    height |-> IF ManifestLevels[k].sized THEN ManifestLevels[k].height ELSE 0,
                    width |-> IF ManifestLevels[k].sized THEN ManifestLevels[k].width ELSE 0]]
           S == updateMediaService(Store, [bitrateInfos |-> bitrateInfos])
       IN  /\ Commit(S)
           /\ last' = Step("manifestParsed", i, <<>>, S)
    /\ UNCHANGED <<sent, mounted, listener, mediaVars, playVars, hlsVars, timerVars>>

\* LEVEL_SWITCHED of instance i: the adapter now plays level.
HlsLevelSwitched(i, level) ==
    /\ EventLoopIdle /\ Live(i)
    /\ hlsInstances' = [hlsInstances EXCEPT ![i].currentLevel = level]
    /\ LET S == updateMediaService(Store, [currentBirateIndex |-> level])
       IN  /\ Commit(S)
           /\ last' = Step("levelSwitched", level, <<>>, S)
    /\ UNCHANGED <<sent, mounted, listener, mediaVars, playVars, hlsSupported, sessionEnded,
                   mediaSource, cleanupRegistered, hlsRef, timerVars>>

\* A mutation of the recovery policy: a network error is not recovered.
errorPolicyNetworkFatal(type) ==
    CASE type = MEDIA_ERROR -> [call |-> "recoverMediaError", status |-> RECOVERING]
      [] OTHER -> [call |-> "destroy", status |-> ERROR]

\* The switch of the ERROR handler on data.type, for a fatal error: the
\* adapter call made and the status stored.
errorPolicy(type) ==
    CASE type = NETWORK_ERROR -> [call |-> "startLoad", status |-> RECOVERING]
      [] type = MEDIA_ERROR -> [call |-> "recoverMediaError", status |-> RECOVERING]
      [] OTHER -> [call |-> "destroy", status |-> ERROR]

\* A mutation of the guard of the ERROR handler: every error is handled.
errorHandledAlways(fatal) == TRUE

\* if (data.fatal): only a fatal error is handled.
errorHandled(fatal) == fatal

\* ERROR of instance i, with data.fatal and data.type.
HlsError(i, fatal, type) ==
    /\ EventLoopIdle /\ Live(i)
    /\ IF errorHandled(fatal)
       THEN LET policy == errorPolicy(type)
                H == IF policy.call = "destroy"
                     THEN [destroy(HlsState, i) EXCEPT !.instances[i].failed = TRUE]
                     ELSE [HlsState EXCEPT !.calls = Append(@, <<policy.call, i>>)]
                S == updateMediaService(Store, [status |-> policy.status])
            IN  /\ CommitHls(H)
                /\ Commit(S)
                /\ last' = Step("hlsError", [fatal |-> fatal, type |-> type], H.calls, S)
       ELSE /\ UNCHANGED <<storeVars, partialState, stateIsContext, effectPending,
                           hlsRef, hlsInstances>>
            /\ last' = Step("hlsError", [fatal |-> fatal, type |-> type], <<>>, Store)
    /\ UNCHANGED <<sent, mounted, listener, mediaVars, playVars, hlsSupported, sessionEnded,
                   mediaSource, cleanupRegistered, timerVars>>

\* A mutation of the adapter part of setCurrentBirateIndex: the level is set
\* without looking at the instance's currentLevel.
setCurrentLevelAlways(H, bitrateIndex) ==
    IF H.ref = 0
    THEN [H EXCEPT !.calls = Append(@, <<"throw", "HLS instance is not available">>)]
    ELSE [H EXCEPT !.instances[H.ref].nextLevel = bitrateIndex,
                   !.calls = Append(@, <<"setCurrentLevel", H.ref, bitrateIndex>>)]

\* setCurrentBirateIndex, the adapter part: _getHls throws without an
\* instance; the level is set when it differs from the instance's
\* currentLevel.
setCurrentLevel(H, bitrateIndex) ==
    IF H.ref = 0
    THEN [H EXCEPT !.calls = Append(@, <<"throw", "HLS instance is not available">>)]
    ELSE IF H.instances[H.ref].currentLevel # bitrateIndex
         THEN [H EXCEPT !.instances[H.ref].nextLevel = bitrateIndex,
                        !.calls = Append(@, <<"setCurrentLevel", H.ref, bitrateIndex>>)]
         ELSE H

\* setCurrentBirateIndex(bitrateIndex): the store is updated first, then the
\* adapter is addressed.
SetCurrentBirateIndex(bitrateIndex) ==
    /\ ~sessionEnded
    /\ LET S == updateMediaService(Store,
                    [autoBitrateEnabled |-> (bitrateIndex = DEFAULT_AUTO_BITRATE_INDEX),
                     currentBirateIndex |-> bitrateIndex])
           H == setCurrentLevel(HlsState, bitrateIndex)
       IN  /\ Commit(S)
           /\ CommitHls(H)
           /\ last' = Step("setCurrentBirateIndex", bitrateIndex, H.calls, S)
    /\ UNCHANGED <<sent, mounted, listener, mediaVars, playVars, hlsSupported, sessionEnded,
                   mediaSource, cleanupRegistered, timerVars>>

\* The provider unmounts: React runs the cleanup the last effect returned
\* (releaseHlsResource, when that render had a source) and detaches the
\* element from _mediaRef. The consumers, its children, are gone with it.
Unmount ==
    /\ EventLoopIdle /\ ~sessionEnded
    /\ LET H == IF cleanupRegistered THEN releaseHlsResource(HlsState) ELSE HlsState
       IN  /\ CommitHls(H)
           /\ last' = [op |-> "unmount", arg |-> 0, calls |-> H.calls, called |-> {},
                       rerendered |-> {}, sameValues |-> TRUE]
    /\ sessionEnded' = TRUE
    /\ cleanupRegistered' = FALSE
    /\ mediaBound' = FALSE
    /\ UNCHANGED <<storeVars, sent, consumerVars, media, playVars, hlsSupported,
                   mediaSource, timerVars>>

\* The binding session, readiness side: source attachment, adapter errors,
\* the element's readiness events and the debounce timer.
Next ==
    \/ BindMedia
    \/ \E src \in Sources : RenderProvider(src)
    \/ \E i \in 1..MaxInstances, fatal \in BOOLEAN, type \in ErrorTypes :
           HlsError(i, fatal, type)
    \/ \E t \in MediaTimes : OnSeeking(t)
    \/ \E b \in BufferedChoices : OnProgress(b)
    \/ OnWaiting
    \/ OnCanPlay
    \/ OnError
    \/ \E t \in timers : FireLoadingTimer(t)
    \/ Tick

\* play() is not called on this side: its return kind is fixed.
InitPromisePlay == Init /\ playReturnsPromise = TRUE

Spec == InitPromisePlay /\ [][Next]_vars

\* The binding session, adapter side: source attachment, adapter events and
\* bitrate selection.
NextAdapter ==
    \/ BindMedia
    \/ \E src \in Sources : RenderProvider(src)
    \/ \E i \in 1..MaxInstances : HlsManifestParsed(i)
    \/ \E i \in 1..MaxInstances, level \in LevelIndexes : HlsLevelSwitched(i, level)
    \/ \E i \in 1..MaxInstances, fatal \in BOOLEAN, type \in ErrorTypes :
           HlsError(i, fatal, type)
    \/ \E i \in LevelIndexes \cup {DEFAULT_AUTO_BITRATE_INDEX} : SetCurrentBirateIndex(i)
    \/ OnCanPlay
    \/ Unmount

SpecAdapter == InitPromisePlay /\ [][NextAdapter]_vars

\* The element's readiness events alone, with positions and buffered extents
\* that include a short first range followed by a gap within the first
\* second.
ReadinessTimes == {0, (3 * SecondUnits) \div 10, 12 * SecondUnits}
ReadinessBuffers ==
    BufferedChoices \cup
    { << <<0, (2 * SecondUnits) \div 10>>,
         <<(5 * SecondUnits) \div 10, 10 * SecondUnits>> >> }

NextReadiness ==
    \/ BindMedia
    \/ \E t \in ReadinessTimes : OnSeeking(t)
    \/ \E b \in ReadinessBuffers : OnProgress(b)
    \/ OnWaiting
    \/ OnCanPlay
    \/ \E t \in timers : FireLoadingTimer(t)
    \/ Tick

SpecReadiness == InitPromisePlay /\ [][NextReadiness]_vars

\* The readiness events up to the end of the session: the provider may
\* unmount at any moment, timeouts pending or not.
NextSession ==
    \/ NextReadiness
    \/ Unmount

SpecSession == InitPromisePlay /\ [][NextSession]_vars

----------------------------------------------------------------------------
(* The binder: play/pause reconciliation *)

\* The binder's play state as one value. P.calls are the native calls made
\* in this step.
PlayState ==
    [ pausedRef |-> pausedRef,
      playPromise |-> playPromise,
      promises |-> promises,
      playOrder |-> playOrder,
      waiters |-> waiters,
      microtasks |-> microtasks,
      calls |-> <<>> ]

\* A settled promise that nothing refers to any more is forgotten.
Collect(P) ==
    [P EXCEPT !.promises =
        [p \in PromiseIds |->
            IF P.promises[p] \in {"resolved", "rejected"} /\ P.playPromise # p
            THEN "unused" ELSE P.promises[p]]]

\* setPaused(true) after `await playPromise` has returned:
\* _playPromise.current = undefined, then media.pause() if _pausedRef.current.
afterAwait(P) ==
    LET P1 == [P EXCEPT !.playPromise = 0]
    IN  IF P1.pausedRef THEN [P1 EXCEPT !.calls = Append(@, <<"pause">>)] ELSE P1

RECURSIVE afterAwaitTimes(_, _)
afterAwaitTimes(P, n) ==
    IF n = 0 THEN P ELSE afterAwaitTimes(afterAwait(P), n - 1)

\* setPaused(paused) up to its await or its end, after the store update.
setPausedBody(P, paused) ==
    LET P1 == [P EXCEPT !.pausedRef = paused]
    IN  IF paused
        THEN IF P1.playPromise # 0
             THEN CASE P1.promises[P1.playPromise] = "pending" ->
                         [P1 EXCEPT !.waiters[P1.playPromise] = @ + 1]
                    [] P1.promises[P1.playPromise] = "resolved" ->
                         [P1 EXCEPT !.microtasks = @ + 1]
                    [] OTHER -> P1
             ELSE [P1 EXCEPT !.calls = Append(@, <<"pause">>)]
        ELSE IF playReturnsPromise
             THEN LET p == CHOOSE q \in PromiseIds :
                               /\ P1.promises[q] = "unused"
                               /\ \A r \in PromiseIds : r < q => P1.promises[r] # "unused"
                  IN  Collect([P1 EXCEPT !.playPromise = p,
                                         !.promises[p] = "pending",
                                         !.playOrder = Append(@, p),
                                         !.calls = Append(@, <<"play">>)])
             ELSE Collect([P1 EXCEPT !.playPromise = 0,
                                     !.calls = Append(@, <<"play">>)])

CommitPlay(P) ==
    /\ pausedRef' = P.pausedRef
    /\ playPromise' = P.playPromise
    /\ promises' = P.promises
    /\ playOrder' = P.playOrder
    /\ waiters' = P.waiters
    /\ microtasks' = P.microtasks

Thrown(op, arg, message) ==
    [op |-> op, arg |-> arg, calls |-> << <<"throw", message>> >>, called |-> {},
     rerendered |-> {}, sameValues |-> TRUE]

\* An error thrown inside an async function: the call returns a promise
\* rejected with it, and nothing is thrown to the caller.
Rejected(op, arg, message) ==
    [op |-> op, arg |-> arg, calls |-> << <<"reject", message>> >>, called |-> {},
     rerendered |-> {}, sameValues |-> TRUE]

\* setPaused(paused), called by a consumer; several calls may be made in one
\* task, before the microtask queue is drained. The function is async:
\* the error of _getMedia rejects the promise it returns.
SetPaused(paused) ==
    IF ~mediaBound
    THEN /\ last' = Rejected("setPaused", paused, "Media element is not available")
         /\ UNCHANGED <<storeVars, sent, consumerVars, mediaVars, playVars, hlsVars,
                        timerVars>>
    ELSE /\ paused /\ playPromise # 0 /\ promises[playPromise] = "pending"
                => waiters[playPromise] < MaxWaiters
         /\ paused /\ playPromise # 0 /\ promises[playPromise] = "resolved"
                => microtasks < MaxWaiters
         /\ ~paused /\ playReturnsPromise => \E q \in PromiseIds : promises[q] = "unused"
         /\ LET S == updateMediaService(Store, [paused |-> paused])
                P == setPausedBody(PlayState, paused)
            IN  /\ Commit(S)
                /\ CommitPlay(P)
                /\ last' = Step("setPaused", paused, P.calls, S)
         /\ lastRequest' = IF paused THEN "pause" ELSE "play"
         /\ UNCHANGED <<sent, mounted, listener, mediaVars, playReturnsPromise, hlsVars,
                        timerVars>>

\* The browser settles a play promise: the element keeps its pending play
\* promises in a list and settles them in that order. The continuations of
\* the setPaused calls awaiting the promise run, in order, before the next
\* task.
SettlePlayPromise(p, outcome) ==
    /\ EventLoopIdle
    /\ playOrder # <<>> /\ p = Head(playOrder)
    /\ LET P0 == [PlayState EXCEPT !.promises[p] = outcome, !.waiters[p] = 0,
                                   !.playOrder = Tail(@)]
           P == Collect(IF outcome = "resolved"
                        THEN afterAwaitTimes(P0, waiters[p]) ELSE P0)
       IN  /\ CommitPlay(P)
           /\ last' = [op |-> "settle", arg |-> outcome, calls |-> P.calls,
                       called |-> {}, rerendered |-> {}, sameValues |-> TRUE]
    /\ UNCHANGED <<storeVars, sent, consumerVars, mediaVars, lastRequest,
                   playReturnsPromise, hlsVars, timerVars>>

\* The continuation of a setPaused call that awaited a promise already
\* resolved.
RunMicrotask ==
    /\ microtasks > 0
    /\ LET P == Collect(afterAwait([PlayState EXCEPT !.microtasks = @ - 1]))
       IN  /\ CommitPlay(P)
           /\ last' = [op |-> "microtask", arg |-> 0, calls |-> P.calls,
                       called |-> {}, rerendered |-> {}, sameValues |-> TRUE]
    /\ UNCHANGED <<storeVars, sent, consumerVars, mediaVars, lastRequest,
                   playReturnsPromise, hlsVars, timerVars>>

\* pause event of the element.
OnPause ==
    /\ mediaBound /\ EventLoopIdle
    /\ pausedRef' = TRUE
    /\ LET S == updateMediaService(Store, [paused |-> TRUE, ended |-> media.ended])
       IN  /\ Commit(S)
           /\ last' = Step("pause", 0, <<>>, S)
    /\ UNCHANGED <<sent, mounted, listener, mediaVars, playPromise, promises, playOrder,
                   waiters, microtasks, lastRequest, playReturnsPromise, hlsVars, timerVars>>

\* play event of the element.
OnPlay ==
    /\ mediaBound /\ EventLoopIdle
    /\ pausedRef' = FALSE
    /\ LET S == updateMediaService(Store, [paused |-> FALSE, ended |-> media.ended])
       IN  /\ Commit(S)
           /\ last' = Step("play", 0, <<>>, S)
    /\ UNCHANGED <<sent, mounted, listener, mediaVars, playPromise, promises, playOrder,
                   waiters, microtasks, lastRequest, playReturnsPromise, hlsVars, timerVars>>

\* loadedmetadata event: play() if the last known state is not paused; the
\* promise it returns is dropped.
OnLoadedMetadata ==
    /\ mediaBound /\ EventLoopIdle
    /\ last' = [op |-> "loadedmetadata", arg |-> 0,
                calls |-> IF ~pausedRef THEN << <<"play">> >> ELSE <<>>,
                called |-> {}, rerendered |-> {}, sameValues |-> TRUE]
    /\ UNCHANGED <<storeVars, sent, consumerVars, mediaVars, playVars, hlsVars, timerVars>>

NextPlay ==
    \/ BindMedia
    \/ \E paused \in BOOLEAN : SetPaused(paused)
    \/ \E p \in PromiseIds, outcome \in {"resolved", "rejected"} :
           SettlePlayPromise(p, outcome)
    \/ RunMicrotask
    \/ OnPause
    \/ OnPlay
    \/ OnLoadedMetadata

\* No source is attached on this side: Hls.isSupported() is fixed.
InitHlsSupported == Init /\ hlsSupported = TRUE

SpecPlay == InitHlsSupported /\ [][NextPlay]_vars

----------------------------------------------------------------------------
(* The binder: volume, mute and rotation *)

\* A mutation of clamp: the lower bound is not applied.
clampUpperOnly(number, lower, upper) ==
    IF number <= upper THEN number ELSE upper

\* lodash clamp(number, lower, upper).
clamp(number, lower, upper) ==
    LET n == IF number <= upper THEN number ELSE upper
    IN  IF n >= lower THEN n ELSE lower

\* The JavaScript remainder a % b for b > 0: the result has the sign of a.
JsRem(a, b) == IF a >= 0 THEN a % b ELSE -((-a) % b)

\* The arguments tried: -1, 0.5 and 1.5 for the volume; degrees for the
\* rotation.
VolumeArgs == {-VolumeUnits, VolumeUnits \div 2, VolumeUnits + VolumeUnits \div 2}
RotateArgs == {-370, -10, 0, 10, 370}

\* setVolume(volume).
SetVolume(volume) ==
    LET newVolume == clamp(volume, 0, VolumeUnits)
    IN  IF ~mediaBound
        THEN /\ last' = Thrown("setVolume", volume, "Media element is not available")
             /\ UNCHANGED <<storeVars, sent, consumerVars, mediaVars, playVars, hlsVars,
                            timerVars>>
        ELSE /\ media' = [media EXCEPT !.volume = newVolume]
             /\ last' = [op |-> "setVolume", arg |-> volume, calls |-> <<>>,
                         called |-> {}, rerendered |-> {}, sameValues |-> TRUE]
             /\ UNCHANGED <<storeVars, sent, consumerVars, mediaBound, playVars, hlsVars,
                            timerVars>>

\* setMuted(muted).
SetMuted(muted) ==
    IF ~mediaBound
    THEN /\ last' = Thrown("setMuted", muted, "Media element is not available")
         /\ UNCHANGED <<storeVars, sent, consumerVars, mediaVars, playVars, hlsVars,
                        timerVars>>
    ELSE /\ media' = [media EXCEPT !.muted = muted]
         /\ last' = [op |-> "setMuted", arg |-> muted, calls |-> <<>>,
                     called |-> {}, rerendered |-> {}, sameValues |-> TRUE]
         /\ UNCHANGED <<storeVars, sent, consumerVars, mediaBound, playVars, hlsVars,
                        timerVars>>

\* volumechange event of the element.
OnVolumeChange ==
    /\ mediaBound /\ EventLoopIdle
    /\ LET S == updateMediaService(Store, [muted |-> media.muted, volume |-> media.volume])
       IN  /\ Commit(S)
           /\ last' = Step("volumechange", 0, <<>>, S)
    /\ UNCHANGED <<sent, mounted, listener, mediaVars, playVars, hlsVars, timerVars>>

\* setRotate(rotate).
SetRotate(rotate) ==
    /\ LET S == updateMediaService(Store, [rotate |-> JsRem(rotate, FullTurn)])
       IN  /\ Commit(S)
           /\ last' = Step("setRotate", rotate, <<>>, S)
    /\ UNCHANGED <<sent, mounted, listener, mediaVars, playVars, hlsVars, timerVars>>

\* A mutation of Math.round: rounding down.
MathRoundDown(d) ==
    IF d.kind = "finite" THEN Finite((d.value \div SecondUnits) * SecondUnits) ELSE d

\* Math.round of a non-negative time, in whole seconds: the nearest integer,
\* a half rounded up; Infinity and NaN are returned as they are.
MathRound(d) ==
    IF d.kind = "finite"
    THEN Finite(((2 * d.value + SecondUnits) \div (2 * SecondUnits)) * SecondUnits)
    ELSE d

\* The durations a durationchange event may find on the element: 9.4 s,
\* 9.5 s, 9.6 s and Infinity. The element's duration becomes NaN without an
\* event.
DurationChoices ==
    { Finite((94 * SecondUnits) \div 10), Finite((95 * SecondUnits) \div 10),
      Finite((96 * SecondUnits) \div 10), InfinityValue }

\* A mutation of the guard of _onDurationChange: every duration is stored
\* (Infinity as the number it is represented with here).
durationAcceptedAlways(duration) == TRUE

\* duration !== Infinity.
durationAccepted(duration) == duration # InfinityValue

\* durationchange event: the rounded duration is stored unless it is
\* Infinity. (NaN, which is not Infinity, would be stored as it is.)
OnDurationChange(d) ==
    /\ mediaBound /\ EventLoopIdle
    /\ LET m == [media EXCEPT !.duration = d]
           duration == MathRound(m.duration)
           S == IF durationAccepted(duration)
                THEN updateMediaService(Store, [duration |-> duration.value])
                ELSE Store
       IN  /\ media' = m
           /\ Commit(S)
           /\ last' = Step("durationchange", d, <<>>, S)
    /\ UNCHANGED <<sent, mounted, listener, mediaBound, playVars, hlsVars, timerVars>>

\* clamp(currentTime, 0, media.duration) of lodash: a NaN bound counts as 0,
\* and nothing exceeds Infinity.
clampToDuration(currentTime, d) ==
    CASE d.kind = "finite" -> clamp(currentTime, 0, d.value)
      [] d.kind = "Infinity" -> clamp(currentTime, 0, Max(currentTime, 0))
      [] OTHER -> clamp(currentTime, 0, 0)

\* The positions asked of setCurrentTime: -1 s, 5 s and 15 s.
CurrentTimeArgs == {-SecondUnits, 5 * SecondUnits, 15 * SecondUnits}

\* setCurrentTime(currentTime).
SetCurrentTime(currentTime) ==
    IF ~mediaBound
    THEN /\ last' = Thrown("setCurrentTime", currentTime, "Media element is not available")
         /\ UNCHANGED <<storeVars, sent, consumerVars, mediaVars, playVars, hlsVars,
                        timerVars>>
    ELSE /\ media' = [media EXCEPT
                         !.currentTime = clampToDuration(currentTime, media.duration)]
         /\ last' = [op |-> "setCurrentTime", arg |-> currentTime, calls |-> <<>>,
                     called |-> {}, rerendered |-> {}, sameValues |-> TRUE]
         /\ UNCHANGED <<storeVars, sent, consumerVars, mediaBound, playVars, hlsVars,
                        timerVars>>

\* The rates asked of setPlaybackRate.
PlaybackRateArgs == {1, 2}

\* setPlaybackRate(playbackRate).
SetPlaybackRate(playbackRate) ==
    IF ~mediaBound
    THEN /\ last' = Thrown("setPlaybackRate", playbackRate, "Media element is not available")
         /\ UNCHANGED <<storeVars, sent, consumerVars, mediaVars, playVars, hlsVars,
                        timerVars>>
    ELSE /\ media' = [media EXCEPT !.playbackRate = playbackRate]
         /\ last' = [op |-> "setPlaybackRate", arg |-> playbackRate, calls |-> <<>>,
                     called |-> {}, rerendered |-> {}, sameValues |-> TRUE]
         /\ UNCHANGED <<storeVars, sent, consumerVars, mediaBound, playVars, hlsVars,
                        timerVars>>

\* ratechange event of the element.
OnRateChange ==
    /\ mediaBound /\ EventLoopIdle
    /\ LET S == updateMediaService(Store, [playbackRate |-> media.playbackRate])
       IN  /\ Commit(S)
           /\ last' = Step("ratechange", 0, <<>>, S)
    /\ UNCHANGED <<sent, mounted, listener, mediaVars, playVars, hlsVars, timerVars>>

\* timeupdate event of the element.
OnTimeUpdate ==
    /\ mediaBound /\ EventLoopIdle
    /\ LET S == updateMediaService(Store, [currentTime |-> media.currentTime])
       IN  /\ Commit(S)
           /\ last' = Step("timeupdate", 0, <<>>, S)
    /\ UNCHANGED <<sent, mounted, listener, mediaVars, playVars, hlsVars, timerVars>>

\* The element's duration and position.
NextDuration ==
    \/ BindMedia
    \/ \E d \in DurationChoices : OnDurationChange(d)
    \/ \E t \in CurrentTimeArgs : SetCurrentTime(t)
    \/ OnTimeUpdate

NextControls ==
    \/ BindMedia
    \/ \E v \in VolumeArgs : SetVolume(v)
    \/ \E m \in BOOLEAN : SetMuted(m)
    \/ OnVolumeChange
    \/ \E r \in PlaybackRateArgs : SetPlaybackRate(r)
    \/ OnRateChange
    \/ \E r \in RotateArgs : SetRotate(r)

InitModern == Init /\ hlsSupported = TRUE /\ playReturnsPromise = TRUE

SpecControls == InitModern /\ [][NextControls]_vars

SpecDuration == InitModern /\ [][NextDuration]_vars

\* The control methods a consumer calls, before and after the element and
\* the adapter are bound; one argument for each method whose argument only
\* reaches the element.
NextSetters ==
    \/ BindMedia
    \/ \E src \in Sources : RenderProvider(src)
    \/ SetCurrentTime(5 * SecondUnits)
    \/ SetPlaybackRate(2)
    \/ SetVolume(VolumeUnits \div 2)
    \/ SetMuted(TRUE)
    \/ \E paused \in BOOLEAN : SetPaused(paused)
    \/ \E i \in LevelIndexes \cup {DEFAULT_AUTO_BITRATE_INDEX} : SetCurrentBirateIndex(i)

SpecSetters == InitPromisePlay /\ [][NextSetters]_vars

----------------------------------------------------------------------------
(* The store driven directly, with consumers *)

\* The values a partial may give each field it mentions.
FieldValues ==
    [ currentTime |-> {0, 5 * SecondUnits},
      volume |-> {VolumeUnits, VolumeUnits \div 2} ]

Partials ==
    UNION { { u \in [D -> UNION {FieldValues[f] : f \in D}] :
                \A f \in D : u[f] \in FieldValues[f] } :
            D \in SUBSET (DOMAIN FieldValues) }

\* An UPDATE event sent to the service, recorded in the history.
RecordedUpdate(updateValues) ==
    /\ Len(sent) < MaxUpdates
    /\ LET S == updateMediaService(Store, updateValues)
       IN  /\ Commit(S)
           /\ last' = Step("update", updateValues, <<>>, S)
    /\ sent' = Append(sent, updateValues)
    /\ UNCHANGED <<mounted, listener, mediaVars, playVars, hlsVars, timerVars>>

\* An UPDATE event sent to the service while consumers come and go (the
\* history is not kept here).
Update(updateValues) ==
    /\ LET S == updateMediaService(Store, updateValues)
       IN  /\ Commit(S)
           /\ last' = Step("update", updateValues, <<>>, S)
    /\ UNCHANGED <<sent, mounted, listener, mediaVars, playVars, hlsVars, timerVars>>

\* First render of a consumer: useState(selector(state.context)); its
\* effect is yet to run.
MountConsumer(c) ==
    /\ c \notin mounted
    /\ mounted' = mounted \cup {c}
    /\ partialState' = [partialState EXCEPT ![c] = selector(c, context)]
    /\ stateIsContext' = [stateIsContext EXCEPT ![c] = IsIdentity(c)]
    /\ effectPending' = [effectPending EXCEPT ![c] = TRUE]
    /\ last' = [op |-> "mount", arg |-> c, calls |-> <<>>, called |-> {},
                rerendered |-> {}, sameValues |-> TRUE]
    /\ UNCHANGED <<storeVars, sent, listener, mediaVars, playVars, hlsVars, timerVars>>

\* The effect of a render: the previous render's cleanup unsubscribes, then
\* subscribe registers the new callback and calls it with the current state.
RunEffect(c) ==
    /\ effectPending[c]
    /\ listener' = [listener EXCEPT ![c] = [on |-> TRUE, captured |-> partialState[c]]]
    /\ LET S0 == [Store EXCEPT !.effectPending[c] = FALSE]
           S == listenerCall(S0, c, partialState[c])
       IN  /\ Commit(S)
           /\ last' = Step("effect", c, <<>>, S)
    /\ UNCHANGED <<sent, mounted, mediaVars, playVars, hlsVars, timerVars>>

NextStore == \E u \in Partials : RecordedUpdate(u)

\* The binder takes no step on this side: its environment is fixed.
SpecStore == InitModern /\ [][NextStore]_vars

NextSelect ==
    \/ \E u \in Partials : Update(u)
    \/ \E c \in Consumers : MountConsumer(c)
    \/ \E c \in Consumers : RunEffect(c)

SpecSelect == InitModern /\ [][NextSelect]_vars

----------------------------------------------------------------------------
(* Claims about the store *)

RECURSIVE LastValue(_, _)
LastValue(f, history) ==
    IF history = <<>> THEN InitialContext[f]
    ELSE IF f \in DOMAIN history[Len(history)]
         THEN history[Len(history)][f]
         ELSE LastValue(f, SubSeq(history, 1, Len(history) - 1))

\* C1: after any sequence of UPDATE events, each field of the snapshot holds
\* the value of the last partial that mentioned it, or its initial default
\* if none did.
C1_ShallowMerge ==
    \A f \in Fields : context[f] = LastValue(f, sent)

\* C1 witness: three updates were sent, the last one does not mention
\* currentTime, and currentTime holds a non-default value from an earlier
\* one while volume was overwritten.
C1_Witness ==
    /\ Len(sent) = MaxUpdates
    /\ "currentTime" \notin DOMAIN sent[Len(sent)]
    /\ context.currentTime # InitialContext.currentTime
    /\ context.volume # InitialContext.volume

\* C2: an update that mentions at least one field and whose fields all equal
\* the current snapshot values calls no subscribed listener with
\* changed = true and re-renders no consumer.
C2_NoSpuriousNotification ==
    (last.op = "update" /\ DOMAIN last.arg # {} /\ last.sameValues) =>
        /\ \A n \in last.called : n[2] = FALSE
        /\ last.rerendered = {}

----------------------------------------------------------------------------
(* Claims about readiness and the adapter *)

\* C3: once status is ERROR it stays ERROR: no later step of the session
\* (media event, adapter event, timeout) stores another status.
C3_ErrorIsTerminal ==
    [][context.status = ERROR => context'.status = ERROR]_vars

\* C4: status becomes LOADING only when LoadingDelay ms have passed since
\* the last seeking event at an unplayable position, and the timeout that a
\* seeking event scheduled fires only if no progress event at a playable
\* position came after that seeking event.
C4_DebouncedLoading ==
    [][ /\ (context.status # LOADING /\ context'.status = LOADING) =>
             (seekAge < 0 \/ seekAge >= LoadingDelay)
        /\ (last'.op = "timeout" /\ last'.arg = "seeking") =>
             (seekAge >= LoadingDelay /\ ~progressSinceSeek) ]_vars

\* C4 witness: the timeout of a seeking event has fired, LoadingDelay ms
\* after it, and changed the status to LOADING.
C4_Witness ==
    /\ last.op = "timeout" /\ last.arg = "seeking"
    /\ ~last.sameValues
    /\ context.status = LOADING
    /\ seekAge = LoadingDelay

\* C7: a fatal adapter error of type network makes one adapter call,
\* startLoad, and stores RECOVERING; of type media, recoverMediaError and
\* RECOVERING; of any other type, destroy and ERROR.
C7_RecoveryPolicy ==
    (last.op = "hlsError" /\ last.arg.fatal) =>
        /\ Len(last.calls) = 1
        /\ LET call == last.calls[1]
           IN  CASE last.arg.type = NETWORK_ERROR ->
                      /\ call[1] = "startLoad"
                      /\ context.status = RECOVERING
                      /\ ~hlsInstances[call[2]].destroyed
                 [] last.arg.type = MEDIA_ERROR ->
                      /\ call[1] = "recoverMediaError"
                      /\ context.status = RECOVERING
                      /\ ~hlsInstances[call[2]].destroyed
                 [] OTHER ->
                      /\ call[1] = "destroy"
                      /\ context.status = ERROR
                      /\ hlsInstances[call[2]].destroyed

\* C7 witness: a fatal network error has been handled.
C7_Witness ==
    /\ last.op = "hlsError" /\ last.arg.fatal
    /\ last.arg.type = NETWORK_ERROR
    /\ context.status = RECOVERING

\* C8: setCurrentBirateIndex issues no set-level request to an instance that
\* the ERROR handler has destroyed.
C8_NoRequestAfterTeardown ==
    last.op = "setCurrentBirateIndex" =>
        \A k \in 1..Len(last.calls) :
            last.calls[k][1] = "setCurrentLevel" =>
                ~hlsInstances[last.calls[k][2]].failed

----------------------------------------------------------------------------
(* Claims about play/pause reconciliation *)

PauseIssued == \E k \in 1..Len(last.calls) : last.calls[k][1] = "pause"

\* C5: the native pause is issued only when no play promise obtained by
\* setPaused(false) is still pending.
C5_NoPauseWhilePlayPending ==
    (last.op \in {"setPaused", "settle", "microtask"} /\ PauseIssued) =>
        \A p \in PromiseIds : promises[p] # "pending"

\* C6: the pause that a setPaused(true) call issues after awaiting the play
\* promise is issued only if the most recent setPaused request is pause.
C6_DeferredPauseOnlyIfStillRequested ==
    (last.op \in {"settle", "microtask"} /\ PauseIssued) =>
        lastRequest = "pause"

----------------------------------------------------------------------------
(* Claims about the setters *)

\* C9: the stored rotate lies in [0, 360), and after setRotate(r) it is
\* congruent to r modulo 360.
C9_RotateNormalised ==
    /\ context.rotate >= 0 /\ context.rotate < FullTurn
    /\ last.op = "setRotate" => (context.rotate - last.arg) % FullTurn = 0

\* C10: setVolume(v) gives the element 1 for v > 1, 0 for v < 0 and v
\* otherwise; a volumechange event stores the element's volume; the stored
\* volume lies in [0, 1].
C10_VolumeClamped ==
    /\ (last.op = "setVolume" /\ last.calls = <<>>) =>
           media.volume = (IF last.arg > VolumeUnits THEN VolumeUnits
                           ELSE IF last.arg < 0 THEN 0 ELSE last.arg)
    /\ last.op = "volumechange" => context.volume = media.volume
    /\ media.volume >= 0 /\ media.volume <= VolumeUnits
    /\ context.volume >= 0 /\ context.volume <= VolumeUnits

\* C10 witness: the volume stored after a volumechange event is 0, which
\* only a setVolume with a negative argument produces here.
C10_Witness ==
    /\ last.op = "volumechange"
    /\ context.volume = 0
    /\ media.volume = 0

----------------------------------------------------------------------------
(* Claims about selective re-rendering *)

\* C11: for an update that changes the snapshot, the subscribed consumer
\* that selects {currentTime} is not re-rendered when only volume changes
\* and is re-rendered when currentTime changes; and whichever consumer is
\* re-rendered, its newly selected value is not deep-equal to the value it
\* rendered before the update.
C11_SelectiveRerender ==
    [][ (last'.op = "update" /\ ~last'.sameValues) =>
          /\ ( /\ listener["time"].on
               /\ DOMAIN last'.arg = {"volume"} ) =>
                 "time" \notin last'.rerendered
          /\ ( /\ listener["time"].on
               /\ context'.currentTime # context.currentTime ) =>
                 "time" \in last'.rerendered
          /\ \A c \in last'.rerendered :
                 ~isEqual(selector(c, context'), partialState[c]) ]_vars

----------------------------------------------------------------------------
(* Claims about bitrate selection and teardown *)

LevelRequests ==
    {k \in 1..Len(last.calls) : last.calls[k][1] = "setCurrentLevel"}

\* C12: setCurrentBirateIndex(i) stores currentBirateIndex = i and
\* autoBitrateEnabled = (i = -1); with an adapter instance bound it issues
\* one set-level request for i to that instance when i differs from the
\* instance's active level, and no request when i equals it.
C12_BitrateSelection ==
    last.op = "setCurrentBirateIndex" =>
        /\ context.currentBirateIndex = last.arg
        /\ context.autoBitrateEnabled = (last.arg = DEFAULT_AUTO_BITRATE_INDEX)
        /\ hlsRef = 0 => LevelRequests = {}
        /\ hlsRef # 0 =>
             IF hlsInstances[hlsRef].currentLevel # last.arg
             THEN /\ last.calls = << <<"setCurrentLevel", hlsRef, last.arg>> >>
                  /\ hlsInstances[hlsRef].nextLevel = last.arg
             ELSE last.calls = <<>>

\* C12 witness: an explicit index equal to the level the bound adapter plays
\* was selected: auto-bitrate is off and no request was made.
C12_Witness ==
    /\ last.op = "setCurrentBirateIndex"
    /\ last.arg = 1
    /\ hlsRef # 0 /\ Live(hlsRef)
    /\ hlsInstances[hlsRef].currentLevel = 1
    /\ ~context.autoBitrateEnabled
    /\ last.calls = <<>>

\* C13: once the provider has unmounted, every adapter instance created
\* during the session is destroyed, whatever the status; and teardown run on
\* an adapter already torn down leaves the adapter reference and every
\* instance as they were.
C13_GuaranteedRelease ==
    /\ sessionEnded =>
           \A i \in 1..Len(hlsInstances) : hlsInstances[i].destroyed
    /\ (hlsRef # 0 /\ hlsInstances[hlsRef].destroyed) =>
           LET H == releaseHlsResource(HlsState)
           IN  H.ref = hlsRef /\ H.instances = hlsInstances

\* C13 witness: the provider unmounted in status ERROR after a second source
\* was attached; the cleanup ran teardown on the instance the error handler
\* had already destroyed.
C13_Witness ==
    /\ last.op = "unmount"
    /\ sessionEnded
    /\ context.status = ERROR
    /\ Len(hlsInstances) = 2
    /\ hlsInstances[hlsRef].failed
    /\ last.calls = << <<"destroy", hlsRef>> >>

----------------------------------------------------------------------------
(* Claims about readiness *)

\* The position lies in the gap between two consecutive buffered ranges.
InGap(m) ==
    \E i \in 1..(Len(m.buffered) - 1) :
        m.currentTime > m.buffered[i][2] /\ m.currentTime < m.buffered[i + 1][1]

\* The readiness the claim states: bounds included, the start of the
\* earliest range taken as 0 when its floor is 0, every other start as is.
StatedReadiness(m) ==
    \E i \in 1..Len(m.buffered) :
        LET start == m.buffered[i][1]
            from == IF i = 1 /\ Floor(start) = 0 THEN 0 ELSE start
        IN  m.currentTime >= from /\ m.currentTime <= m.buffered[i][2]

\* C14: the readiness check made by a seeking, progress or waiting event is
\* true exactly when the position lies in a buffered range, bounds included,
\* with only the earliest range's start floored to 0; a position in a gap
\* between two ranges is not playable.
C14_ReadinessCheck ==
    last.op \in {"seeking", "progress", "waiting"} =>
        /\ last.arg = StatedReadiness(media)
        /\ InGap(media) => ~last.arg

----------------------------------------------------------------------------
(* Claims about the duration *)

\* C15: a durationchange event with an infinite duration sends no update and
\* leaves the snapshot as it was; one with a finite duration d stores the
\* whole number of seconds nearest to d.
C15_DurationRounded ==
    last.op = "durationchange" =>
        IF last.arg = InfinityValue
        THEN last.sameValues /\ last.called = {}
        ELSE /\ last.arg.kind = "finite"
             /\ context.duration % SecondUnits = 0
             /\ 2 * (context.duration - last.arg.value) <= SecondUnits
             /\ 2 * (last.arg.value - context.duration) <= SecondUnits

\* C15 witness: an infinite duration came after 9.6 s had been stored as
\* 10 s, and 10 s is still stored.
C15_Witness ==
    /\ last.op = "durationchange"
    /\ last.arg = InfinityValue
    /\ media.duration = InfinityValue
    /\ context.duration = 10 * SecondUnits

----------------------------------------------------------------------------
(* Claims about unavailable resources *)

MediaSetters ==
    {"setCurrentTime", "setPlaybackRate", "setVolume", "setMuted", "setPaused"}

ThrownToCaller(message) ==
    \E k \in 1..Len(last.calls) : last.calls[k] = <<"throw", message>>

\* C16: setCurrentTime, setPlaybackRate, setVolume, setMuted and setPaused
\* called while no media element is bound throw to the caller, and
\* setCurrentBirateIndex called while no adapter instance is bound throws to
\* the caller.
C16_UnavailableResourceThrows ==
    /\ (last.op \in MediaSetters /\ ~mediaBound) =>
           ThrownToCaller("Media element is not available")
    /\ (last.op = "setCurrentBirateIndex" /\ hlsRef = 0) =>
           ThrownToCaller("HLS instance is not available")

CallFailed ==
    \E k \in 1..Len(last.calls) : last.calls[k][1] \in {"throw", "reject"}

\* C20: a call of setCurrentTime, setPlaybackRate, setVolume, setMuted,
\* setPaused or setCurrentBirateIndex that fails because its resource is not
\* bound leaves every field of the snapshot as it was before the call.
C20_FailedCallLeavesSnapshot ==
    (last.op \in MediaSetters \cup {"setCurrentBirateIndex"} /\ CallFailed) =>
        last.sameValues

----------------------------------------------------------------------------
(* Claims about the adapter's lifecycle *)

\* C17: a render that creates an adapter instance destroys the previous one
\* first; at most one instance is live in any state; and while a source is
\* attached the instance _hlsRef designates is not a destroyed one.
C17_SingleLiveAdapter ==
    /\ last.op = "render" =>
           \A k \in 1..Len(last.calls) :
               last.calls[k][1] = "new" =>
                   /\ \A j \in 1..Len(last.calls) :
                          last.calls[j][1] = "destroy" => j < k
                   /\ \A i \in 1..(last.calls[k][2] - 1) : hlsInstances[i].destroyed
    /\ Cardinality({i \in 1..Len(hlsInstances) : Live(i)}) <= 1
    /\ (mediaSource # "none" /\ ~sessionEnded /\ hlsRef # 0) =>
           ~hlsInstances[hlsRef].destroyed

----------------------------------------------------------------------------
(* Claims about the debounce timer *)

\* The last step was a canplay event, or a progress or waiting event that
\* found the position playable.
PlayableEvent ==
    \/ last.op = "canplay"
    \/ last.op \in {"progress", "waiting"} /\ last.arg = TRUE

\* C18: at most one LOADING timeout is pending; after a canplay event, or a
\* progress or waiting event at a playable position, status is CAN_PLAY and
\* no timeout is pending; and status changes to LOADING only when a timeout
\* fires that a seeking or waiting event scheduled and that was still
\* pending.
C18_SingleTimerCancelledOnReadiness ==
    [][ /\ Cardinality(timers') <= 1
        /\ PlayableEvent' => (context'.status = CAN_PLAY /\ timers' = {})
        /\ (context.status # LOADING /\ context'.status = LOADING) =>
               /\ last'.op = "timeout"
               /\ last'.arg \in {"seeking", "waiting"}
               /\ \E t \in timers : t.id = timeoutLoadingId /\ t.remaining = 0
               /\ ~PlayableEvent ]_vars

\* C18 witness: a progress event at a playable position came less than
\* LoadingDelay ms after a seeking event had scheduled the timeout, and
\* cancelled it.
C18_Witness ==
    /\ last.op = "progress" /\ last.arg = TRUE
    /\ seekAge >= 0 /\ seekAge < LoadingDelay
    /\ timeoutLoadingId # 0
    /\ timers = {}
    /\ context.status = CAN_PLAY

----------------------------------------------------------------------------
(* Claims about adapter errors *)

\* C19: a non-fatal adapter error sends no update, leaves every field of the
\* snapshot as it was, makes no adapter call (no startLoad, no
\* recoverMediaError, no destroy) and leaves every instance and the adapter
\* reference as they were.
C19_NonFatalIgnored ==
    [][ (last'.op = "hlsError" /\ ~last'.arg.fatal) =>
            /\ context' = context
            /\ last'.called = {} /\ last'.rerendered = {}
            /\ last'.calls = <<>>
            /\ hlsInstances' = hlsInstances
            /\ hlsRef' = hlsRef ]_vars

\* C19 witness: a non-fatal network error arrived at a live instance while
\* status was CAN_PLAY, and status is still CAN_PLAY.
C19_Witness ==
    /\ last.op = "hlsError"
    /\ ~last.arg.fatal
    /\ last.arg.type = NETWORK_ERROR
    /\ hlsRef # 0 /\ Live(hlsRef)
    /\ context.status = CAN_PLAY

----------------------------------------------------------------------------
(* Claims about the end of the session *)

\* C21: once the provider has unmounted, no step sends an update to the
\* store: the snapshot stays as it was at unmount, and no LOADING timeout
\* fires.
C21_NoUpdateAfterSessionEnd ==
    [][ sessionEnded =>
            /\ last'.op # "timeout"
            /\ context' = context
            /\ changed' = changed ]_vars

----------------------------------------------------------------------------
(* Claims about consumers at rest *)

\* C22: a mounted consumer whose subscription callbacks and re-renders have
\* all run (its last render's effect has subscribed, nothing is pending)
\* renders exactly its selector applied to the current snapshot, whatever
\* the interleaving of updates, re-renders and re-subscriptions before.
C22_NeverStale ==
    \A c \in mounted :
        (listener[c].on /\ ~effectPending[c]) =>
            partialState[c] = selector(c, context)

\* C22 witness: the {currentTime} consumer has just re-subscribed after
\* updates of currentTime and of volume; the callback ran at once, found
\* nothing to replace, and the consumer renders the stored currentTime.
C22_Witness ==
    /\ last.op = "effect" /\ last.arg = "time"
    /\ last.called = {<<"time", TRUE>>}
    /\ last.rerendered = {}
    /\ ~effectPending["time"]
    /\ context.currentTime = 5 * SecondUnits
    /\ context.volume # InitialContext.volume
    /\ partialState["time"] = [currentTime |-> 5 * SecondUnits]

====
